---- MODULE Spec2Model ----
(***************************************************************************)
(* A model of the byte-frequency Analyzer of solvip/frequency              *)
(* (src/frequency.go): Feed, Score, ScoreString, Save, Restore, the        *)
(* float64 scoring arithmetic and the sync.RWMutex that guards the         *)
(* counters.                                                               *)
(***************************************************************************)
EXTENDS Integers, Sequences, FiniteSets, TLC

VARIABLES
    frequency,  \* Analyzer.frequency of the analyzer in use: [256]int64
    size,       \* Analyzer.size of the analyzer in use
    files,      \* the file system: path -> the file there
    ret,        \* the call that returned last and what it returned
    hist,       \* history of the analyzer in use since NewAnalyzer()
    saved,      \* history: path -> the analyzer state a successful Save wrote
    test,       \* the inputs and the progress of a test scenario
    mu,         \* a.mu: the goroutine that holds or awaits it as writer, and its readers
    pc,         \* goroutine -> where it is in the method it called
    local,      \* goroutine -> the arguments and loop index of its call
    calls,      \* number of calls made so far by the goroutines
    committed   \* history: counters and size when the last Feed or Restore returned

conc == <<mu, pc, local, calls, committed>>

vars == <<frequency, size, files, ret, hist, saved, test, conc>>

(***************************************************************************)
(* Natural numbers of arbitrary size, as little-endian sequences of limbs  *)
(* in base 2^15 without high zero limbs (<< >> is zero).  They carry the   *)
(* 53-bit significands of float64 values and the exact intermediate        *)
(* results of the float64 operations below.                                *)
(***************************************************************************)
Base == 32768

LimbBits == 15

RECURSIVE BNorm(_)
BNorm(a) ==
    IF a = << >> THEN << >>
    ELSE IF a[Len(a)] = 0 THEN BNorm(SubSeq(a, 1, Len(a) - 1))
    ELSE a

RECURSIVE BFromNat(_)
BFromNat(n) ==
    IF n = 0 THEN << >> ELSE <<n % Base>> \o BFromNat(n \div Base)

BLimb(a, i) == IF i <= Len(a) THEN a[i] ELSE 0

RECURSIVE BCmpFrom(_, _, _)
BCmpFrom(a, b, i) ==
    IF i = 0 THEN 0
    ELSE IF a[i] > b[i] THEN 1
    ELSE IF a[i] < b[i] THEN -1
    ELSE BCmpFrom(a, b, i - 1)

\* -1, 0 or 1 as a < b, a = b, a > b
BCmp(a, b) ==
    IF Len(a) > Len(b) THEN 1
    ELSE IF Len(a) < Len(b) THEN -1
    ELSE BCmpFrom(a, b, Len(a))

RECURSIVE BAddFrom(_, _, _, _)
BAddFrom(a, b, i, carry) ==
    IF i > Len(a) /\ i > Len(b)
    THEN IF carry = 0 THEN << >> ELSE <<carry>>
    ELSE LET s == BLimb(a, i) + BLimb(b, i) + carry
         IN  <<s % Base>> \o BAddFrom(a, b, i + 1, s \div Base)

BAdd(a, b) == BAddFrom(a, b, 1, 0)

RECURSIVE BSubFrom(_, _, _, _)
BSubFrom(a, b, i, borrow) ==
    IF i > Len(a) THEN << >>
    ELSE LET d == a[i] - BLimb(b, i) - borrow
         IN  IF d < 0 THEN <<d + Base>> \o BSubFrom(a, b, i + 1, 1)
             ELSE <<d>> \o BSubFrom(a, b, i + 1, 0)

\* a - b, for a >= b
BSub(a, b) == BNorm(BSubFrom(a, b, 1, 0))

RECURSIVE BMulSmallFrom(_, _, _, _)
BMulSmallFrom(a, k, i, carry) ==
    IF i > Len(a)
    THEN IF carry = 0 THEN << >> ELSE <<carry>>
    ELSE LET p == a[i] * k + carry
         IN  <<p % Base>> \o BMulSmallFrom(a, k, i + 1, p \div Base)

\* a * k, for 0 <= k < Base
BMulSmall(a, k) == IF k = 0 THEN << >> ELSE BMulSmallFrom(a, k, 1, 0)

Zeros(n) == [i \in 1..n |-> 0]

BShlLimbs(a, n) == IF a = << >> THEN << >> ELSE Zeros(n) \o a

RECURSIVE BMulFrom(_, _, _)
BMulFrom(a, b, j) ==
    IF j > Len(b) THEN << >>
    ELSE BAdd(BShlLimbs(BMulSmall(a, b[j]), j - 1), BMulFrom(a, b, j + 1))

BMul(a, b) == BMulFrom(a, b, 1)

RECURSIVE BDivSmallFrom(_, _, _, _)
BDivSmallFrom(a, k, i, rem) ==
    IF i = 0 THEN << >>
    ELSE LET cur == rem * Base + a[i]
         IN  BDivSmallFrom(a, k, i - 1, cur % k) \o <<cur \div k>>

\* floor(a / k), for 0 < k <= Base
BDivSmall(a, k) == BNorm(BDivSmallFrom(a, k, Len(a), 0))

\* a * 2^k
BShl(a, k) == BShlLimbs(BMulSmall(a, 2 ^ (k % LimbBits)), k \div LimbBits)

\* floor(a / 2^k)
BShr(a, k) ==
    LET n == k \div LimbBits
    IN  IF n >= Len(a) THEN << >>
        ELSE BDivSmall(SubSeq(a, n + 1, Len(a)), 2 ^ (k % LimbBits))

RECURSIVE NatBitLen(_)
NatBitLen(n) == IF n = 0 THEN 0 ELSE 1 + NatBitLen(n \div 2)

BBitLen(a) ==
    IF a = << >> THEN 0 ELSE LimbBits * (Len(a) - 1) + NatBitLen(a[Len(a)])

BOdd(a) == a # << >> /\ a[1] % 2 = 1

BOne == <<1>>

(***************************************************************************)
(* float64 (IEEE 754 binary64, round to nearest even), as Go computes it.  *)
(* A finite value is (-1)^s * m * 2^e with m = 0 or 2^52 <= m < 2^53, so   *)
(* equal values have equal records.  The exponent range is not modelled:   *)
(* the quotients, differences and products of scoreFrequencies stay far    *)
(* inside it.                                                              *)
(***************************************************************************)
Precision == 53

NaN == [k |-> "nan", s |-> 0, m |-> << >>, e |-> 0]

Inf(sign) == [k |-> "inf", s |-> sign, m |-> << >>, e |-> 0]

FZero(sign) == [k |-> "fin", s |-> sign, m |-> << >>, e |-> 0]

IsNaN(x) == x.k = "nan"

IsZero(x) == x.k = "fin" /\ x.m = << >>

\* The float64 nearest to (-1)^sign * (M + f) * 2^E, where 0 <= f < 1 and
\* f > 0 iff sticky; ties go to the even significand.
RoundF(sign, M, E, sticky) ==
    LET L == BBitLen(M)
    IN  IF L = 0 THEN FZero(sign)
        ELSE IF L <= Precision
        THEN [k |-> "fin", s |-> sign, m |-> BShl(M, Precision - L),
              e |-> E - (Precision - L)]
        ELSE LET sh   == L - Precision
                 q    == BShr(M, sh)
                 rem  == BSub(M, BShl(q, sh))
                 c    == BCmp(rem, BShl(BOne, sh - 1))
                 up   == c > 0 \/ (c = 0 /\ (sticky \/ BOdd(q)))
                 q2   == IF up THEN BAdd(q, BOne) ELSE q
             IN  IF BBitLen(q2) > Precision
                 THEN [k |-> "fin", s |-> sign, m |-> BShr(q2, 1), e |-> E + sh + 1]
                 ELSE [k |-> "fin", s |-> sign, m |-> q2, e |-> E + sh]

\* float64(n) for an int64 n
FromInt(n) ==
    IF n = 0 THEN FZero(0)
    ELSE IF n < 0 THEN RoundF(1, BFromNat(-n), 0, FALSE)
    ELSE RoundF(0, BFromNat(n), 0, FALSE)

FOne == FromInt(1)

FNeg(x) == IF x.k = "nan" THEN x ELSE [x EXCEPT !.s = 1 - x.s]

\* math.Abs
FAbs(x) == IF x.k = "nan" THEN x ELSE [x EXCEPT !.s = 0]

\* The exact sum of two finite values as sign, magnitude and exponent
ExactSum(x, y) ==
    LET E  == IF x.e < y.e THEN x.e ELSE y.e
        Mx == BShl(x.m, x.e - E)
        My == BShl(y.m, y.e - E)
        c  == BCmp(Mx, My)
    IN  IF x.s = y.s THEN [s |-> x.s, m |-> BAdd(Mx, My), e |-> E]
        ELSE IF c = 0 THEN [s |-> 0, m |-> << >>, e |-> 0]
        ELSE IF c > 0 THEN [s |-> x.s, m |-> BSub(Mx, My), e |-> E]
        ELSE [s |-> y.s, m |-> BSub(My, Mx), e |-> E]

\* x + y
FAdd(x, y) ==
    IF x.k = "nan" \/ y.k = "nan" THEN NaN
    ELSE IF x.k = "inf" /\ y.k = "inf" THEN (IF x.s = y.s THEN x ELSE NaN)
    ELSE IF x.k = "inf" THEN x
    ELSE IF y.k = "inf" THEN y
    ELSE IF IsZero(x) /\ IsZero(y) THEN FZero(IF x.s = 1 /\ y.s = 1 THEN 1 ELSE 0)
    ELSE IF IsZero(x) THEN y
    ELSE IF IsZero(y) THEN x
    ELSE LET r == ExactSum(x, y) IN RoundF(r.s, r.m, r.e, FALSE)

\* x - y
FSub(x, y) == FAdd(x, FNeg(y))

\* x * y
FMul(x, y) ==
    IF x.k = "nan" \/ y.k = "nan" THEN NaN
    ELSE LET sgn == (x.s + y.s) % 2
         IN  IF x.k = "inf" \/ y.k = "inf"
             THEN (IF IsZero(x) \/ IsZero(y) THEN NaN ELSE Inf(sgn))
             ELSE IF IsZero(x) \/ IsZero(y) THEN FZero(sgn)
             ELSE RoundF(sgn, BMul(x.m, y.m), x.e + y.e, FALSE)

\* Four-limb forms of the numbers below 2^60 that long division works on
Pad4(a) == <<BLimb(a, 1), BLimb(a, 2), BLimb(a, 3), BLimb(a, 4)>>

\* 2 * a + bit on four limbs
Dbl4(a, bit) ==
    LET c1 == 2 * a[1] + bit
        c2 == 2 * a[2] + c1 \div Base
        c3 == 2 * a[3] + c2 \div Base
        c4 == 2 * a[4] + c3 \div Base
    IN  <<c1 % Base, c2 % Base, c3 % Base, c4>>

Ge4(a, b) ==
    \/ a[4] > b[4]
    \/ a[4] = b[4] /\ (\/ a[3] > b[3]
                       \/ a[3] = b[3] /\ (\/ a[2] > b[2]
                                          \/ a[2] = b[2] /\ a[1] >= b[1]))

\* a - b on four limbs, for a >= b
Sub4(a, b) ==
    LET d1 == a[1] - b[1]
        d2 == a[2] - b[2] - (IF d1 < 0 THEN 1 ELSE 0)
        d3 == a[3] - b[3] - (IF d2 < 0 THEN 1 ELSE 0)
        d4 == a[4] - b[4] - (IF d3 < 0 THEN 1 ELSE 0)
    IN  <<d1 % Base, d2 % Base, d3 % Base, d4>>

\* One step of binary long division: the next quotient bit of st.rem / d
DivStep(st, d) ==
    LET r2 == Dbl4(st.rem, 0)
    IN  IF Ge4(r2, d)
        THEN [q |-> Dbl4(st.q, 1), rem |-> Sub4(r2, d)]
        ELSE [q |-> Dbl4(st.q, 0), rem |-> r2]

\* n steps of long division from the quotient st.q and the remainder
\* st.rem < d; once the remainder is zero the remaining bits are zeros
RECURSIVE DivBits(_, _, _)
RECURSIVE DivRest(_, _, _)
DivBits(st, d, n) ==
    IF n = 0 THEN st
    ELSE IF n = 1 THEN DivStep(st, d)
    ELSE DivRest(DivBits(st, d, n \div 2), d, n - n \div 2)

DivRest(st, d, n) ==
    IF st.rem = <<0, 0, 0, 0>>
    THEN [q |-> Pad4(BShl(BNorm(st.q), n)), rem |-> st.rem]
    ELSE DivBits(st, d, n)

GuardBits == 3

\* x / y
FDiv(x, y) ==
    IF x.k = "nan" \/ y.k = "nan" THEN NaN
    ELSE LET sgn == (x.s + y.s) % 2
         IN  IF x.k = "inf" THEN (IF y.k = "inf" THEN NaN ELSE Inf(sgn))
             ELSE IF y.k = "inf" THEN FZero(sgn)
             ELSE IF IsZero(y) THEN (IF IsZero(x) THEN NaN ELSE Inf(sgn))
             ELSE IF IsZero(x) THEN FZero(sgn)
             ELSE LET bits == Precision + GuardBits
                      ge   == BCmp(x.m, y.m) >= 0
                      quo  == DivBits(IF ge THEN [q   |-> Pad4(BOne),
                                                  rem |-> Pad4(BSub(x.m, y.m))]
                                            ELSE [q   |-> Pad4(<< >>),
                                                  rem |-> Pad4(x.m)],
                                      Pad4(y.m), bits)
                  IN  RoundF(sgn, BNorm(quo.q), x.e - y.e - bits,
                             BNorm(quo.rem) # << >>)

\* x == y
FEq(x, y) ==
    /\ x.k # "nan" /\ y.k # "nan"
    /\ \/ IsZero(x) /\ IsZero(y)
       \/ x = y

\* x > y
FGt(x, y) ==
    IF x.k = "nan" \/ y.k = "nan" THEN FALSE
    ELSE IF FEq(x, y) THEN FALSE
    ELSE IF x.k = "inf" THEN x.s = 0
    ELSE IF y.k = "inf" THEN y.s = 1
    ELSE LET r == ExactSum(x, FNeg(y)) IN r.m # << >> /\ r.s = 0

\* x >= y
FGe(x, y) == FGt(x, y) \/ FEq(x, y)

\* a * b + c with one rounding, as a fused multiply-add computes it
FMA(a, b, c) ==
    IF a.k # "fin" \/ b.k # "fin" \/ c.k # "fin" THEN FAdd(FMul(a, b), c)
    ELSE IF IsZero(a) \/ IsZero(b) THEN FAdd(FMul(a, b), c)
    ELSE LET p == [k |-> "fin", s |-> (a.s + b.s) % 2, m |-> BMul(a.m, b.m),
                   e |-> a.e + b.e]
         IN  IF IsZero(c) THEN RoundF(p.s, p.m, p.e, FALSE)
             ELSE LET r == ExactSum(p, c) IN RoundF(r.s, r.m, r.e, FALSE)

(***************************************************************************)
(* The Analyzer: 256 counters indexed by byte value, and their total.      *)
(***************************************************************************)
NumCounters == 256

ByteIndex == 0..(NumCounters - 1)

\* NewAnalyzer(): the zero value of the struct
NewAnalyzer == [frequency |-> [i \in ByteIndex |-> 0], size |-> 0]

\* Feed with a loop that counts the byte and forgets a.size += 1
FeedByteKeepsSize(an, character) ==
    [frequency |-> [an.frequency EXCEPT ![character] = @ + 1],
     size      |-> an.size]

\* One iteration of the loop of Feed
FeedByte(an, character) ==
    [frequency |-> [an.frequency EXCEPT ![character] = @ + 1],
     size      |-> an.size + 1]

\* The loop of Feed over contents[i..], in order
RECURSIVE FeedFrom(_, _, _)
FeedFrom(an, contents, i) ==
    IF i > Len(contents) THEN an
    ELSE FeedFrom(FeedByte(an, contents[i]), contents, i + 1)

\* Feed that counts from zero and so forgets what was fed before
FeedForgetsEarlier(an, contents) == FeedFrom(NewAnalyzer, contents, 1)

\* The state of an analyzer after Feed(contents)
Feed(an, contents) == FeedFrom(an, contents, 1)

\* max with the comparison the wrong way round
maxFlipped(a, b) == IF FGt(a, b) THEN b ELSE a

max(a, b) == IF FGt(a, b) THEN a ELSE b

relativeDifference(a, b) ==
    IF FEq(a, FZero(0)) /\ FEq(b, FZero(0)) THEN FZero(0)
    ELSE FDiv(FAbs(FSub(a, b)), max(a, b))

\* One iteration of the loop of scoreFrequencies: score += r * (1 - rd),
\* where refSize and targetSize are float64(ref.size) and
\* float64(target.size), the same values in every iteration.
\* The Go specification lets a build fuse the product and the sum into one
\* rounding (as on arm64); fusedBuild says whether this build does.
ScoreStep(score, ref, target, refSize, targetSize, i, fusedBuild) ==
    IF /\ ref.frequency[i] = 0 /\ target.frequency[i] = 0
       /\ ref.size > 0 /\ target.size > 0
    THEN \* r = t = 0/size = 0, relativeDifference is 0, the term is 0 * 1
         FAdd(score, FZero(0))
    ELSE LET r  == FDiv(FromInt(ref.frequency[i]), refSize)
             t  == FDiv(FromInt(target.frequency[i]), targetSize)
             w  == FSub(FOne, relativeDifference(r, t))
         IN  IF fusedBuild THEN FMA(r, w, score) ELSE FAdd(score, FMul(r, w))

\* The iterations lo..hi of the loop of scoreFrequencies, in order, from
\* the partial sum score; a NaN partial sum stays NaN to the end
RECURSIVE ScoreRange(_, _, _, _, _, _, _, _)
RECURSIVE ScoreRest(_, _, _, _, _, _, _, _)
ScoreRange(score, ref, target, refSize, targetSize, lo, hi, fusedBuild) ==
    IF lo = hi
    THEN ScoreStep(score, ref, target, refSize, targetSize, lo, fusedBuild)
    ELSE ScoreRest(ScoreRange(score, ref, target, refSize, targetSize,
                              lo, (lo + hi) \div 2, fusedBuild),
                   ref, target, refSize, targetSize,
                   (lo + hi) \div 2 + 1, hi, fusedBuild)

ScoreRest(score, ref, target, refSize, targetSize, lo, hi, fusedBuild) ==
    IF IsNaN(score) THEN score
    ELSE ScoreRange(score, ref, target, refSize, targetSize, lo, hi, fusedBuild)

\* scoreFrequencies that answers 0 when one of the sizes is 0
scoreFrequenciesGuarded(ref, target, fusedBuild) ==
    IF ref.size = 0 \/ target.size = 0 THEN FZero(0)
    ELSE ScoreRange(FZero(0), ref, target, FromInt(ref.size), FromInt(target.size),
                    0, NumCounters - 1, fusedBuild)

scoreFrequencies(ref, target, fusedBuild) ==
    ScoreRange(FZero(0), ref, target, FromInt(ref.size), FromInt(target.size),
               0, NumCounters - 1, fusedBuild)

\* Score that feeds the contents to the receiver
ScoreFeedsReceiver(an, contents) ==
    [a |-> Feed(an, contents), other |-> NewAnalyzer]

\* other := NewAnalyzer(); other.Feed(contents): the receiver and other
\* afterwards
ScoreFeeds(an, contents) ==
    [a |-> an, other |-> Feed(NewAnalyzer, contents)]

\* Score that feeds other all but the last byte of the contents
ScoreOfPrefix(an, contents, fusedBuild) ==
    scoreFrequencies(an, Feed(NewAnalyzer, SubSeq(contents, 1, Len(contents) - 1)),
                     fusedBuild)

\* The value Score(contents) returns for the receiver an
Score(an, contents, fusedBuild) ==
    scoreFrequencies(an, Feed(NewAnalyzer, contents), fusedBuild)

\* []byte(text): the bytes of a string are its bytes
ScoreString(an, text, fusedBuild) == Score(an, text, fusedBuild)

(***************************************************************************)
(* Persistence.  encoding/gob writes the array as one message: its element *)
(* count followed by the elements, each int64 as an unsigned integer with  *)
(* the sign in the lowest bit.  The decoder first reads the whole message  *)
(* and then stores the elements into the destination array one by one.     *)
(* A file is the entries of the message it holds and whether the message   *)
(* is whole, that is, the length it announces is the length it has.        *)
(***************************************************************************)
EncodeInt(v) == IF v < 0 THEN 2 * (-v - 1) + 1 ELSE 2 * v

DecodeInt(u) == IF u % 2 = 1 THEN -(u \div 2) - 1 ELSE u \div 2

\* encoder.Encode(a.frequency): the entries of the message Save writes
Encode(freq) ==
    <<NumCounters>> \o [i \in 1..NumCounters |-> EncodeInt(freq[i - 1])]

NoFile == [exists |-> FALSE, whole |-> FALSE, data |-> << >>]

FileOf(entries, isWhole) == [exists |-> TRUE, whole |-> isWhole, data |-> entries]

\* decoder.Decode(&a.frequency) on an open file: the counters afterwards
\* and whether Decode returned an error.  A message that is cut short or
\* announces another element count fails before anything is stored; a
\* whole message whose elements end early fails after the elements it
\* holds were stored.
Decode(freq, file) ==
    IF ~file.whole \/ Len(file.data) = 0 \/ file.data[1] # NumCounters
    THEN [frequency |-> freq, err |-> TRUE]
    ELSE LET n == Len(file.data) - 1
         IN  [frequency |-> [i \in ByteIndex |->
                               IF i < n THEN DecodeInt(file.data[i + 2])
                               ELSE freq[i]],
              err |-> n < NumCounters]

\* The sum of the counters lo..hi
RECURSIVE SumCounters(_, _, _)
SumCounters(freq, lo, hi) ==
    IF lo = hi THEN freq[lo]
    ELSE SumCounters(freq, lo, (lo + hi) \div 2)
         + SumCounters(freq, (lo + hi) \div 2 + 1, hi)

\* Restore with a loop that starts at the second counter
RestoredSizeSkipsFirst(oldSize, freq) == oldSize + SumCounters(freq, 1, NumCounters - 1)

\* for _, v := range a.frequency { a.size += v }
RestoredSize(oldSize, freq) == oldSize + SumCounters(freq, 0, NumCounters - 1)

\* Restore(path) on the analyzer an when path holds file: the analyzer
\* afterwards and whether Restore returned an error
Restore(an, file) ==
    IF ~file.exists THEN [an |-> an, err |-> TRUE]
    ELSE LET dec == Decode(an.frequency, file)
         IN  IF dec.err
             THEN [an |-> [frequency |-> dec.frequency, size |-> an.size],
                   err |-> TRUE]
             ELSE [an |-> [frequency |-> dec.frequency,
                           size |-> RestoredSize(an.size, dec.frequency)],
                   err |-> FALSE]

(***************************************************************************)
(* Bounds of the model                                                     *)
(***************************************************************************)
NumSyms == 2        \* byte values 0..NumSyms-1 occur in the buffers fed

MaxLen == 1         \* longest buffer fed

MaxSize == 2        \* largest size and counter an analyzer reaches

MaxKeep == 2        \* entries a damaged file keeps at most

Syms == 0..(NumSyms - 1)

RECURSIVE SeqsUpTo(_, _)
SeqsUpTo(S, n) ==
    IF n = 0 THEN {<< >>}
    ELSE LET shorter == SeqsUpTo(S, n - 1)
         IN  shorter \cup {Append(sq, e) : sq \in {t \in shorter : Len(t) = n - 1}, e \in S}

Bufs == SeqsUpTo(Syms, MaxLen)

Paths == {"p"}

(***************************************************************************)
(* The calls of one caller on one analyzer at a time: each action is a     *)
(* whole call.                                                             *)
(***************************************************************************)
Analyzer == [frequency |-> frequency, size |-> size]

\* History of an analyzer: whether no call was made on it yet, whether no
\* Restore was called on it, and, while that is so, how often each byte
\* value occurred in the buffers fed to it and how many bytes they held
NoHistory ==
    [fresh |-> TRUE, feedOnly |-> TRUE, count |-> [i \in ByteIndex |-> 0], bytes |-> 0]

Occurrences(contents, i) == Cardinality({k \in 1..Len(contents) : contents[k] = i})

AfterFeed(h, contents) ==
    IF h.feedOnly
    THEN [fresh |-> FALSE, feedOnly |-> TRUE,
          count |-> [i \in ByteIndex |-> h.count[i] + Occurrences(contents, i)],
          bytes |-> h.bytes + Len(contents)]
    ELSE [h EXCEPT !.fresh = FALSE]

AfterRestore(h) == [NoHistory EXCEPT !.fresh = FALSE, !.feedOnly = FALSE]

NotSaved == [valid |-> FALSE, an |-> NewAnalyzer, hist |-> NoHistory]

NoTest == [phase |-> "none"]

\* The goroutines that share the analyzer
NumProcs == 2

Procs == 1..NumProcs

NoLocal == [contents |-> << >>, path |-> "", i |-> 0]

\* The zero value of sync.RWMutex, and no goroutine in a call
NoCalls ==
    /\ mu = [writer |-> 0, readers |-> {}]
    /\ pc = [p \in Procs |-> "idle"]
    /\ local = [p \in Procs |-> NoLocal]
    /\ calls = 0
    /\ committed = [frequency |-> frequency, size |-> size]

Init ==
    /\ frequency = NewAnalyzer.frequency
    /\ size = NewAnalyzer.size
    /\ files = [p \in Paths |-> NoFile]
    /\ ret = [op |-> "NewAnalyzer", err |-> FALSE]
    /\ hist = NoHistory
    /\ saved = [p \in Paths |-> NotSaved]
    /\ test = NoTest
    /\ NoCalls

\* b := NewAnalyzer(): the caller goes on with a new analyzer
New ==
    /\ frequency' = NewAnalyzer.frequency
    /\ size' = NewAnalyzer.size
    /\ ret' = [op |-> "NewAnalyzer", err |-> FALSE]
    /\ hist' = NoHistory
    /\ UNCHANGED <<files, saved, test, conc>>

\* The model follows an analyzer while its size and counters are small
Small(an) ==
    /\ an.size <= MaxSize
    /\ \A i \in ByteIndex : an.frequency[i] <= MaxSize

FeedCall(contents) ==
    /\ LET after == Feed(Analyzer, contents)
       IN  /\ Small(after)
           /\ frequency' = after.frequency
           /\ size' = after.size
    /\ ret' = [op |-> "Feed", err |-> FALSE]
    /\ hist' = AfterFeed(hist, contents)
    /\ UNCHANGED <<files, saved, test, conc>>

\* Save(path): os.Create fails; or Encode fails after writing the first
\* keep entries of the message; or the whole message is written
SaveCreateFails(path) ==
    /\ ret' = [op |-> "Save", err |-> TRUE]
    /\ hist' = [hist EXCEPT !.fresh = FALSE]
    /\ UNCHANGED <<frequency, size, files, saved, test, conc>>

SaveEncodeFails(path, keep) ==
    /\ files' = [files EXCEPT ![path] = FileOf(SubSeq(Encode(frequency), 1, keep), FALSE)]
    /\ saved' = [saved EXCEPT ![path] = NotSaved]
    /\ ret' = [op |-> "Save", err |-> TRUE]
    /\ hist' = [hist EXCEPT !.fresh = FALSE]
    /\ UNCHANGED <<frequency, size, test, conc>>

SaveOk(path) ==
    /\ files' = [files EXCEPT ![path] = FileOf(Encode(frequency), TRUE)]
    /\ saved' = [saved EXCEPT ![path] = [valid |-> TRUE, an |-> Analyzer, hist |-> hist]]
    /\ ret' = [op |-> "Save", err |-> FALSE]
    /\ hist' = [hist EXCEPT !.fresh = FALSE]
    /\ UNCHANGED <<frequency, size, test, conc>>

SaveCall(path) ==
    \/ SaveCreateFails(path)
    \/ \E keep \in 0..MaxKeep : SaveEncodeFails(path, keep)
    \/ SaveOk(path)

RestoreCall(path) ==
    LET res == Restore(Analyzer, files[path])
    IN  /\ Small(res.an)
        /\ frequency' = res.an.frequency
        /\ size' = res.an.size
        /\ ret' = [op |-> "Restore", err |-> res.err]
        /\ hist' = AfterRestore(hist)
        /\ UNCHANGED <<files, saved, test, conc>>

\* Outside the program, the file at path is replaced by a malformed one: a
\* whole message that holds only the first keep entries of the old one
Damage(path, keep) ==
    /\ files[path].exists
    /\ keep < Len(files[path].data)
    /\ files' = [files EXCEPT ![path] = FileOf(SubSeq(files[path].data, 1, keep), TRUE)]
    /\ saved' = [saved EXCEPT ![path] = NotSaved]
    /\ UNCHANGED <<frequency, size, ret, hist, test, conc>>

Next ==
    \/ New
    \/ \E contents \in Bufs : FeedCall(contents)
    \/ \E path \in Paths : SaveCall(path)
    \/ \E path \in Paths : RestoreCall(path)
    \/ \E path \in Paths, keep \in 0..MaxKeep : Damage(path, keep)

Spec == Init /\ [][Next]_vars

(***************************************************************************)
(* Properties of the calls                                                 *)
(***************************************************************************)

\* C1: after every completed call, size is the sum of the 256 counters
C1_SizeIsSumOfCounters == size = SumCounters(frequency, 0, NumCounters - 1)

\* C2: a successful Restore(p) leaves the counters stored in p, and as size
\* their sum, whatever the state before
C2_RestoreReplacesState ==
    [][\A path \in Paths :
          (RestoreCall(path) /\ ~ret'.err) =>
              /\ \A i \in ByteIndex : frequency'[i] = DecodeInt(files[path].data[i + 2])
              /\ size' = SumCounters(frequency', 0, NumCounters - 1)]_vars

\* C3: a Restore that returns an error leaves the counters and size as they
\* were
C3_FailedRestoreKeepsState ==
    [][\A path \in Paths :
          (RestoreCall(path) /\ ret'.err) =>
              (frequency' = frequency /\ size' = size)]_vars

\* C4: Save(p) by an analyzer trained by Feed calls, then a successful
\* Restore(p) on a fresh analyzer, gives the counters and size of the saver
C4_SaveRestoreRoundTrip ==
    [][\A path \in Paths :
          (/\ hist.fresh
           /\ saved[path].valid /\ saved[path].hist.feedOnly
           /\ ret'.op = "Restore" /\ ~ret'.err
           /\ RestoreCall(path)) =>
              /\ frequency' = saved[path].an.frequency
              /\ size' = saved[path].an.size]_vars

\* A fresh analyzer restored the file that a trained, Feed-only analyzer saved
C4_Witness ==
    /\ ret = [op |-> "Restore", err |-> FALSE]
    /\ \E path \in Paths :
          /\ saved[path].valid /\ saved[path].hist.feedOnly
          /\ saved[path].hist.bytes = MaxSize
          /\ \A i \in Syms : saved[path].an.frequency[i] > 0
          /\ Analyzer = saved[path].an

\* C6: after Feed calls only, each counter is the number of occurrences of
\* its byte value in the buffers fed and size is the number of bytes fed
C6_FeedCounts ==
    hist.feedOnly =>
        /\ \A i \in ByteIndex : frequency[i] = hist.count[i]
        /\ size = hist.bytes

\* Feed calls that reached the largest size, with every byte value fed
C6_Witness ==
    /\ hist.feedOnly
    /\ ret.op = "Feed"
    /\ hist.bytes = MaxSize
    /\ \A i \in Syms : hist.count[i] > 0

(***************************************************************************)
(* Feeding in different orders: three new analyzers, "ab" is fed A and     *)
(* then B, "ba" is fed B and then A, "cat" is fed A followed by B in one   *)
(* call.  test.todo holds the buffers each analyzer is still to be fed.    *)
(***************************************************************************)
CatLen == 2         \* longest buffer A or B

CatBufs == SeqsUpTo(Syms, CatLen)

Fed == {"ab", "ba", "cat"}

FeedTests ==
    {[phase |-> "feed", A |-> a, B |-> b,
      todo |-> [ab |-> <<a, b>>, ba |-> <<b, a>>, cat |-> <<a \o b>>],
      an |-> [n \in Fed |-> NewAnalyzer]] : a \in CatBufs, b \in CatBufs}

InitFeed ==
    /\ frequency = NewAnalyzer.frequency
    /\ size = NewAnalyzer.size
    /\ files = [p \in Paths |-> NoFile]
    /\ ret = [op |-> "NewAnalyzer", err |-> FALSE]
    /\ hist = NoHistory
    /\ saved = [p \in Paths |-> NotSaved]
    /\ test \in FeedTests
    /\ NoCalls

\* The next Feed call on the analyzer n
FeedNext(n) ==
    /\ test.phase = "feed"
    /\ test.todo[n] # << >>
    /\ test' = [test EXCEPT !.an[n] = Feed(@, Head(test.todo[n])),
                            !.todo[n] = Tail(@)]
    /\ UNCHANGED <<frequency, size, files, ret, hist, saved, conc>>

NextFeed == \E n \in Fed : FeedNext(n)

SpecFeed == InitFeed /\ [][NextFeed]_vars

FeedsDone == test.phase = "feed" /\ \A n \in Fed : test.todo[n] = << >>

\* C7: Feed(A) then Feed(B), Feed(B) then Feed(A), and Feed(A followed by B)
\* leave three new analyzers with the same counters and the same size
C7_FeedOrderAndConcatenation ==
    FeedsDone =>
        /\ test.an["ab"] = test.an["ba"]
        /\ test.an["ab"] = test.an["cat"]

\* All the calls were made, for buffers whose two concatenations differ
C7_Witness ==
    /\ FeedsDone
    /\ Len(test.A) = CatLen /\ Len(test.B) = CatLen
    /\ test.A \o test.B # test.B \o test.A
    /\ test.an["cat"].size = 2 * CatLen

(***************************************************************************)
(* Scoring: a new analyzer is trained by Feed(test.corpus) and then asked  *)
(* for Score(test.content), in a build that fuses the multiplication and   *)
(* the addition of the loop or in one that does not.  Score depends on a   *)
(* buffer only through its counts, so the buffers are taken with their     *)
(* bytes in increasing order.                                              *)
(***************************************************************************)
ScoreSyms == 2      \* byte values in the buffers of the general scenarios

ScoreLen == 2       \* longest buffer of the general scenarios

SelfSyms == 4       \* byte values in a corpus that is scored against itself

SelfLen == 10       \* length of a corpus that is scored against itself

RECURSIVE SumTo(_, _)
SumTo(c, k) == IF k < 0 THEN 0 ELSE SumTo(c, k - 1) + c[k]

\* The buffer that holds c[0] bytes 0, then c[1] bytes 1, ... up to byte k
RECURSIVE Runs(_, _)
Runs(c, k) == IF k < 0 THEN << >> ELSE Runs(c, k - 1) \o [i \in 1..c[k] |-> k]

\* The buffers of n bytes with values below numSyms, in increasing order
SortedBufs(numSyms, n) ==
    {Runs(c, numSyms - 1) :
        c \in {d \in [0..(numSyms - 1) -> 0..n] : SumTo(d, numSyms - 1) = n}}

ScoreBufs == UNION {SortedBufs(ScoreSyms, n) : n \in 0..ScoreLen}

SelfBufs == SortedBufs(SelfSyms, SelfLen)

ScoreTests ==
    {[phase |-> "train", corpus |-> c, content |-> d, fused |-> f] :
        c \in ScoreBufs, d \in ScoreBufs, f \in BOOLEAN}
    \cup {[phase |-> "train", corpus |-> c, content |-> c, fused |-> f] :
            c \in SelfBufs, f \in BOOLEAN}

InitScore ==
    /\ frequency = NewAnalyzer.frequency
    /\ size = NewAnalyzer.size
    /\ files = [p \in Paths |-> NoFile]
    /\ ret = [op |-> "NewAnalyzer", err |-> FALSE]
    /\ hist = NoHistory
    /\ saved = [p \in Paths |-> NotSaved]
    /\ test \in ScoreTests
    /\ NoCalls

\* a.Feed(corpus)
TrainCall ==
    /\ test.phase = "train"
    /\ LET after == Feed(Analyzer, test.corpus)
       IN  /\ frequency' = after.frequency
           /\ size' = after.size
    /\ ret' = [op |-> "Feed", err |-> FALSE]
    /\ test' = [test EXCEPT !.phase = "score"]
    /\ UNCHANGED <<files, hist, saved, conc>>

\* a.Score(content): the value is returned; the receiver is what
\* ScoreFeeds leaves of it
ScoreCall ==
    /\ test.phase = "score"
    /\ LET fed == ScoreFeeds(Analyzer, test.content)
       IN  /\ frequency' = fed.a.frequency
           /\ size' = fed.a.size
    /\ ret' = [op |-> "Score", err |-> FALSE,
               val |-> Score(Analyzer, test.content, test.fused)]
    /\ test' = [test EXCEPT !.phase = "done"]
    /\ UNCHANGED <<files, hist, saved, conc>>

\* a.ScoreString(content)
ScoreStringCall ==
    /\ test.phase = "score"
    /\ LET fed == ScoreFeeds(Analyzer, test.content)
       IN  /\ frequency' = fed.a.frequency
           /\ size' = fed.a.size
    /\ ret' = [op |-> "ScoreString", err |-> FALSE,
               val |-> ScoreString(Analyzer, test.content, test.fused)]
    /\ test' = [test EXCEPT !.phase = "done"]
    /\ UNCHANGED <<files, hist, saved, conc>>

\* a.Save(path) after the score was taken: os.Create fails, Encode fails
\* after keep entries, or the whole message is written
SaveAfterScore(path) ==
    /\ test.phase = "done"
    /\ \/ /\ ret' = [op |-> "Save", err |-> TRUE]
          /\ UNCHANGED files
       \/ \E keep \in 0..MaxKeep :
             /\ files' = [files EXCEPT ![path] =
                            FileOf(SubSeq(Encode(frequency), 1, keep), FALSE)]
             /\ ret' = [op |-> "Save", err |-> TRUE]
       \/ /\ files' = [files EXCEPT ![path] = FileOf(Encode(frequency), TRUE)]
          /\ ret' = [op |-> "Save", err |-> FALSE]
    /\ test' = [test EXCEPT !.phase = "saved"]
    /\ UNCHANGED <<frequency, size, hist, saved, conc>>

NextScore ==
    \/ TrainCall
    \/ ScoreCall
    \/ ScoreStringCall
    \/ \E path \in Paths : SaveAfterScore(path)

SpecScore == InitScore /\ [][NextScore]_vars

Scored == test.phase = "done" /\ ret.op = "Score"

\* No byte value with a non-zero counter occurs in contents
NoOverlap(contents) ==
    \A k \in 1..Len(contents) : frequency[contents[k]] = 0

\* C8: for a trained analyzer and non-empty content, 0 <= Score <= 1
C8_ScoreInUnitInterval ==
    (Scored /\ size > 0 /\ test.content # << >>) =>
        (FGe(ret.val, FZero(0)) /\ FGe(FOne, ret.val))

\* C9: an analyzer trained only by Feed(S), S not empty, scores S as
\* exactly 1.0
C9_SelfScoreIsOne ==
    (Scored /\ test.corpus # << >> /\ test.content = test.corpus) =>
        FEq(ret.val, FOne)

MaxCalls == 2       \* calls the goroutines make altogether

ConcBufs == {<<0, 1>>}

\* a.mu.Lock() excludes the other writers: one writer at a time goes on
NoOtherWriter(m) == m.writer = 0

\* RLock that does not wait for a writer
WriterIgnored(m) == TRUE

\* a.mu.RLock() returns when no writer holds or awaits the lock
NoWriter(m) == m.writer = 0

\* Lock that does not wait for the readers inside
ReadersIgnored(m) == TRUE

\* a.mu.Lock() returns, for the writer that excluded the others, when no
\* reader is inside
NoReaders(m) == m.readers = {}

\* A return that leaves the lock held
KeptLocked(m) == m

\* The deferred a.mu.Unlock()
Unlocked(m) == [m EXCEPT !.writer = 0]

RUnlocked(m, p) == [m EXCEPT !.readers = @ \ {p}]

Trained == Feed(NewAnalyzer, <<0, 1>>)

\* The analyzer is new or trained, and the file is absent or was saved by
\* a trained analyzer
InitConc ==
    /\ \E an \in {NewAnalyzer, Trained} :
          /\ frequency = an.frequency
          /\ size = an.size
    /\ files \in [Paths -> {NoFile, FileOf(Encode(Trained.frequency), TRUE)}]
    /\ ret = [op |-> "NewAnalyzer", err |-> FALSE]
    /\ hist = NoHistory
    /\ saved = [p \in Paths |-> NotSaved]
    /\ test = NoTest
    /\ NoCalls

Goto(p, label) == pc' = [pc EXCEPT ![p] = label]

Return(p, op, err) ==
    /\ pc' = [pc EXCEPT ![p] = "idle"]
    /\ local' = [local EXCEPT ![p] = NoLocal]
    /\ ret' = [op |-> op, err |-> err]

\* go a.Feed(contents), up to the call of a.mu.Lock()
FeedStart(p, contents) ==
    /\ pc[p] = "idle" /\ calls < MaxCalls
    /\ calls' = calls + 1
    /\ local' = [local EXCEPT ![p] = [NoLocal EXCEPT !.contents = contents, !.i = 1]]
    /\ Goto(p, "FeedLock")
    /\ UNCHANGED <<frequency, size, files, ret, hist, saved, test, mu, committed>>

\* a.mu.Lock(), first half: exclude the other writers and new readers
LockExclude(p) ==
    /\ pc[p] \in {"FeedLock", "RestoreLock"}
    /\ NoOtherWriter(mu)
    /\ mu' = [mu EXCEPT !.writer = p]
    /\ Goto(p, IF pc[p] = "FeedLock" THEN "FeedLockWait" ELSE "RestoreLockWait")
    /\ UNCHANGED <<frequency, size, files, ret, hist, saved, test, local, calls, committed>>

\* a.mu.Lock(), second half: wait for the readers inside to leave
LockEnter(p) ==
    /\ pc[p] \in {"FeedLockWait", "RestoreLockWait"}
    /\ NoReaders(mu)
    /\ Goto(p, IF pc[p] = "FeedLockWait" THEN "FeedLoop" ELSE "RestoreDecode")
    /\ UNCHANGED <<frequency, size, files, ret, hist, saved, test, mu, local, calls, committed>>

\* The loop test of Feed and a.frequency[character] += 1, or the return
FeedLoop(p) ==
    /\ pc[p] = "FeedLoop"
    /\ IF local[p].i > Len(local[p].contents)
       THEN /\ mu' = Unlocked(mu)
            /\ Return(p, "Feed", FALSE)
            /\ committed' = Analyzer
            /\ UNCHANGED frequency
       ELSE /\ frequency' = FeedByte(Analyzer, local[p].contents[local[p].i]).frequency
            /\ Goto(p, "FeedSize")
            /\ UNCHANGED <<mu, local, ret, committed>>
    /\ UNCHANGED <<size, files, hist, saved, test, calls>>

\* a.size += 1, and on to the next byte
FeedSize(p) ==
    /\ pc[p] = "FeedSize"
    /\ size' = size + 1
    /\ local' = [local EXCEPT ![p].i = @ + 1]
    /\ Goto(p, "FeedLoop")
    /\ UNCHANGED <<frequency, files, ret, hist, saved, test, mu, calls, committed>>

\* go a.Score(contents), up to the call of a.mu.RLock(): other is fed
ScoreStart(p, contents) ==
    /\ pc[p] = "idle" /\ calls < MaxCalls
    /\ calls' = calls + 1
    /\ local' = [local EXCEPT ![p] = [NoLocal EXCEPT !.contents = contents]]
    /\ Goto(p, "ScoreRLock")
    /\ UNCHANGED <<frequency, size, files, ret, hist, saved, test, mu, committed>>

\* a.mu.RLock()
RLockEnter(p) ==
    /\ pc[p] \in {"ScoreRLock", "SaveRLock"}
    /\ NoWriter(mu)
    /\ mu' = [mu EXCEPT !.readers = @ \cup {p}]
    /\ Goto(p, IF pc[p] = "ScoreRLock" THEN "ScoreRead" ELSE "SaveEncode")
    /\ UNCHANGED <<frequency, size, files, ret, hist, saved, test, local, calls, committed>>

\* return scoreFrequencies(a, other): the value returned is that of
\* scoreFrequencies(ret.ref, ret.target)
ScoreRead(p) ==
    /\ pc[p] = "ScoreRead"
    /\ pc' = [pc EXCEPT ![p] = "idle"]
    /\ local' = [local EXCEPT ![p] = NoLocal]
    /\ ret' = [op |-> "Score", err |-> FALSE, ref |-> Analyzer,
               target |-> Feed(NewAnalyzer, local[p].contents)]
    /\ mu' = RUnlocked(mu, p)
    /\ UNCHANGED <<frequency, size, files, hist, saved, test, calls, committed>>

\* go a.Save(path), up to the call of a.mu.RLock(): os.Create fails, or
\* leaves an empty file
SaveStart(p, path) ==
    /\ pc[p] = "idle" /\ calls < MaxCalls
    /\ calls' = calls + 1
    /\ \/ /\ ret' = [op |-> "Save", err |-> TRUE]
          /\ UNCHANGED <<files, pc, local>>
       \/ /\ files' = [files EXCEPT ![path] = FileOf(<< >>, FALSE)]
          /\ local' = [local EXCEPT ![p] = [NoLocal EXCEPT !.path = path]]
          /\ Goto(p, "SaveRLock")
          /\ UNCHANGED ret
    /\ UNCHANGED <<frequency, size, hist, saved, test, mu, committed>>

\* encoder.Encode(a.frequency) fails after keep entries or succeeds, and
\* Save returns
SaveEncode(p) ==
    /\ pc[p] = "SaveEncode"
    /\ \/ \E keep \in 0..MaxKeep :
             /\ files' = [files EXCEPT ![local[p].path] =
                            FileOf(SubSeq(Encode(frequency), 1, keep), FALSE)]
             /\ Return(p, "Save", TRUE)
       \/ /\ files' = [files EXCEPT ![local[p].path] = FileOf(Encode(frequency), TRUE)]
          /\ Return(p, "Save", FALSE)
    /\ mu' = RUnlocked(mu, p)
    /\ UNCHANGED <<frequency, size, hist, saved, test, calls, committed>>

\* go a.Restore(path), up to the call of a.mu.Lock(): os.Open fails, or
\* the file is open
RestoreStart(p, path) ==
    /\ pc[p] = "idle" /\ calls < MaxCalls
    /\ calls' = calls + 1
    /\ IF ~files[path].exists
       THEN /\ ret' = [op |-> "Restore", err |-> TRUE]
            /\ UNCHANGED <<pc, local>>
       ELSE /\ local' = [local EXCEPT ![p] = [NoLocal EXCEPT !.path = path]]
            /\ Goto(p, "RestoreLock")
            /\ UNCHANGED ret
    /\ UNCHANGED <<frequency, size, files, hist, saved, test, mu, committed>>

\* decoder.Decode(&a.frequency), and the return if it fails
RestoreDecode(p) ==
    /\ pc[p] = "RestoreDecode"
    /\ LET dec == Decode(frequency, files[local[p].path])
       IN  /\ frequency' = dec.frequency
           /\ IF dec.err
              THEN /\ mu' = Unlocked(mu)
                   /\ Return(p, "Restore", TRUE)
                   /\ committed' = [frequency |-> dec.frequency, size |-> size]
              ELSE /\ Goto(p, "RestoreSum")
                   /\ UNCHANGED <<mu, local, ret, committed>>
    /\ UNCHANGED <<size, files, hist, saved, test, calls>>

\* The loop that adds the counters to a.size, and the return
RestoreSum(p) ==
    /\ pc[p] = "RestoreSum"
    /\ size' = RestoredSize(size, frequency)
    /\ mu' = Unlocked(mu)
    /\ Return(p, "Restore", FALSE)
    /\ committed' = [frequency |-> frequency, size |-> RestoredSize(size, frequency)]
    /\ UNCHANGED <<frequency, files, hist, saved, test, calls>>

NextConc ==
    \E p \in Procs :
        \/ \E contents \in ConcBufs : FeedStart(p, contents)
        \/ LockExclude(p)
        \/ LockEnter(p)
        \/ FeedLoop(p)
        \/ FeedSize(p)
        \/ \E contents \in ConcBufs : ScoreStart(p, contents)
        \/ RLockEnter(p)
        \/ ScoreRead(p)
        \/ \E path \in Paths : SaveStart(p, path)
        \/ SaveEncode(p)
        \/ \E path \in Paths : RestoreStart(p, path)
        \/ RestoreDecode(p)
        \/ RestoreSum(p)

SpecConc == InitConc /\ [][NextConc]_vars

\* The goroutine is between Lock and Unlock in Feed or Restore
Writing(p) == pc[p] \in {"FeedLoop", "FeedSize", "RestoreDecode", "RestoreSum"}

\* The goroutine is between RLock and RUnlock in Score or Save
Reading(p) == pc[p] \in {"ScoreRead", "SaveEncode"}

\* C5: while a Feed or a Restore accesses the counters or size, no other
\* call does
C5_WritersAreAlone ==
    \A p \in Procs, q \in Procs :
        (p # q /\ Writing(p)) => (~Writing(q) /\ ~Reading(q))

\* A Score and a Save, or two of a kind, access the counters at the same time
C5_Witness ==
    \E p \in Procs, q \in Procs : p # q /\ Reading(p) /\ Reading(q)

(***************************************************************************)
(* The receiver of the calls that only read                                *)
(***************************************************************************)

\* C11: a step in which Score, ScoreString or Save returns, with or without
\* an error, leaves the counters and size of the receiver as they were
C11_ReadersKeepReceiver ==
    [][(test'.phase # test.phase /\ ret'.op \in {"Score", "ScoreString", "Save"}) =>
          (frequency' = frequency /\ size' = size)]_vars

\* A trained analyzer was scored and then failed to save itself
C11_Witness ==
    /\ test.phase = "saved"
    /\ ret = [op |-> "Save", err |-> TRUE]
    /\ size > 0
    /\ test.content # << >>

\* C12: from one state of an analyzer to the next no counter and not size
\* decreases, except in a step in which Restore replaces the counters, that
\* is, succeeds
C12_CountersNeverDecrease ==
    [][(/\ ret'.op # "NewAnalyzer"
        /\ ~(ret'.op = "Restore" /\ ~ret'.err)) =>
          /\ \A i \in ByteIndex : frequency'[i] >= frequency[i]
          /\ size' >= size]_vars

CountsOf(contents) == [i \in 0..(ScoreSyms - 1) |-> Occurrences(contents, i)]

PermTests ==
    {[phase |-> "train", corpus |-> c, content |-> Runs(CountsOf(q), ScoreSyms - 1),
      perm |-> q, fused |-> f, first |-> NaN] :
        c \in SortedBufs(ScoreSyms, ScoreLen),
        q \in SeqsUpTo(0..(ScoreSyms - 1), ScoreLen) \ {<< >>},
        f \in BOOLEAN}

InitPerm ==
    /\ frequency = NewAnalyzer.frequency
    /\ size = NewAnalyzer.size
    /\ files = [p \in Paths |-> NoFile]
    /\ ret = [op |-> "NewAnalyzer", err |-> FALSE]
    /\ hist = NoHistory
    /\ saved = [p \in Paths |-> NotSaved]
    /\ test \in PermTests
    /\ NoCalls

\* a.Score(perm), after a.Score(content) returned test.first
ScorePermCall ==
    /\ test.phase = "done"
    /\ LET fed == ScoreFeeds(Analyzer, test.perm)
       IN  /\ frequency' = fed.a.frequency
           /\ size' = fed.a.size
    /\ ret' = [op |-> "Score", err |-> FALSE,
               val |-> Score(Analyzer, test.perm, test.fused)]
    /\ test' = [test EXCEPT !.phase = "permuted", !.first = ret.val]
    /\ UNCHANGED <<files, hist, saved, conc>>

NextPerm == TrainCall \/ ScoreCall \/ ScorePermCall

SpecPerm == InitPerm /\ [][NextPerm]_vars

\* C14: for a trained analyzer and content that is not empty, Score of the
\* content and Score of a permutation of it are the same value
C14_ScoreIgnoresOrder ==
    (test.phase = "permuted" /\ size > 0 /\ test.content # << >>) =>
        ret.val = test.first

\* A buffer and a different order of its bytes were scored, with a score
\* that is neither 0 nor NaN
C14_Witness ==
    /\ test.phase = "permuted"
    /\ size > 0
    /\ Len(test.perm) = ScoreLen
    /\ test.perm # test.content
    /\ FGt(ret.val, FZero(0))

(***************************************************************************)
(* Progress of the goroutines: while some goroutine inside a call can take *)
(* its next step, the scheduler lets one of them step at some time.        *)
(***************************************************************************)
Continue(p) ==
    \/ LockExclude(p)
    \/ LockEnter(p)
    \/ FeedLoop(p)
    \/ FeedSize(p)
    \/ RLockEnter(p)
    \/ ScoreRead(p)
    \/ SaveEncode(p)
    \/ RestoreDecode(p)
    \/ RestoreSum(p)

SpecConcFair == SpecConc /\ WF_vars(\E p \in Procs : Continue(p))

Quiet == \A p \in Procs : pc[p] = "idle"

\* C15: when no call is running the lock is free, whatever way the calls
\* returned; and every call that was made returns at some time: again and
\* again no goroutine is inside a call, so that no state leaves a goroutine
\* inside a call with no goroutine able to step
C15_CallsComplete ==
    /\ [](Quiet => mu = [writer |-> 0, readers |-> {}])
    /\ []<>Quiet

\* All the calls were made and have returned, the last of them a Save
\* whose Encode failed while it held the lock
C15_Witness ==
    /\ Quiet
    /\ calls = MaxCalls
    /\ ret = [op |-> "Save", err |-> TRUE]
    /\ \E path \in Paths :
          /\ files[path].exists /\ ~files[path].whole
          /\ Len(files[path].data) = MaxKeep
    /\ mu = [writer |-> 0, readers |-> {}]

\* C16: all the while a Score or a Save holds the read lock, and so
\* whenever it reads a counter or size, these are the counters and size
\* that the last completed Feed or Restore left (or the initial ones):
\* nothing of a Feed or Restore in progress is seen
C16_ReadersSeeCommittedState ==
    \A p \in Procs :
        Reading(p) => (frequency = committed.frequency /\ size = committed.size)

\* A Score or Save is reading a trained analyzer while a Feed or a Restore
\* that has called Lock waits for it to leave
C16_Witness ==
    \E p \in Procs, q \in Procs :
        /\ Reading(p)
        /\ pc[q] \in {"FeedLockWait", "RestoreLockWait"}
        /\ mu.writer = q
        /\ committed.size > 0

(***************************************************************************)
(* The preset analyzer for English text, and Feed calls on it              *)
(***************************************************************************)
\* The counters of EnglishAnalyzer, for the byte values 0 to 255
EnglishCounters ==
    <<
      0, 0, 0, 0, 0, 0, 0, 0, 0, 0, 132230, 0, 0, 0, 0, 0, 0, 0, 0, 0,
      0, 0, 0, 0, 0, 0, 0, 0, 0, 0, 0, 0, 1118323, 4805, 16267, 10, 17,
      11, 30, 13831, 1299, 1299, 352, 0, 97346, 24497, 47923, 198, 1133,
      1409, 659, 517, 471, 490, 349, 350, 504, 301, 6172, 16468, 3, 2,
      3, 4411, 20, 12139, 5370, 5999, 3507, 5993, 4066, 3747, 7966,
      26560, 1878, 695, 3840, 6518, 4805, 5236, 4835, 460, 3992, 8246,
      16050, 1289, 960, 6071, 298, 2106, 221, 407, 0, 407, 0, 963, 0,
      425022, 80895, 140227, 226517, 688599, 127083, 105382, 321942,
      349210, 4730, 35065, 221740, 128556, 373375, 395487, 90412, 5787,
      325314, 341986, 476299, 150327, 53345, 109065, 8599, 95926, 4605,
      14, 0, 14, 1, 0, 0, 0, 0, 0, 0, 0, 0, 0, 0, 0, 0, 0, 0, 0, 0, 0,
      0, 0, 0, 0, 0, 0, 0, 0, 0, 0, 0, 0, 0, 0, 0, 0, 0, 0, 0, 0, 0, 0,
      0, 0, 0, 0, 0, 0, 0, 0, 0, 0, 0, 0, 0, 0, 0, 0, 0, 0, 0, 0, 0, 0,
      0, 0, 0, 0, 0, 0, 0, 0, 0, 0, 0, 0, 0, 0, 0, 0, 0, 0, 0, 0, 0, 0,
      0, 0, 0, 0, 0, 0, 0, 0, 0, 0, 0, 0, 0, 0, 0, 0, 0, 0, 0, 0, 0, 0,
      0, 0, 0, 0, 0, 0, 0, 0, 0, 0, 0, 0, 0, 0, 0, 0, 0, 0, 0, 0, 0, 0,
      0, 0
    >>

\* EnglishAnalyzer with a size that is off by one
EnglishAnalyzerMiscounted ==
    [frequency |-> [i \in ByteIndex |-> EnglishCounters[i + 1]], size |-> 6921847]

EnglishAnalyzer ==
    [frequency |-> [i \in ByteIndex |-> EnglishCounters[i + 1]], size |-> 6921848]

MaxEnglishFed == 8  \* bytes fed to the preset analyzer at most

\* Byte values fed to the preset analyzer: 0, space and "e"
EnglishSyms == {0, 32, 101}

EnglishBufs == SeqsUpTo(EnglishSyms, MaxLen)

InitEnglish ==
    /\ frequency = EnglishAnalyzer.frequency
    /\ size = EnglishAnalyzer.size
    /\ files = [p \in Paths |-> NoFile]
    /\ ret = [op |-> "EnglishAnalyzer", err |-> FALSE]
    /\ hist = NoHistory
    /\ saved = [p \in Paths |-> NotSaved]
    /\ test = NoTest
    /\ NoCalls

\* EnglishAnalyzer.Feed(contents)
EnglishFeedCall(contents) ==
    /\ size + Len(contents) <= EnglishAnalyzer.size + MaxEnglishFed
    /\ LET after == Feed(Analyzer, contents)
       IN  /\ frequency' = after.frequency
           /\ size' = after.size
    /\ ret' = [op |-> "Feed", err |-> FALSE]
    /\ UNCHANGED <<files, hist, saved, test, conc>>

NextEnglish == \E contents \in EnglishBufs : EnglishFeedCall(contents)

SpecEnglish == InitEnglish /\ [][NextEnglish]_vars

\* C17: the size of EnglishAnalyzer, 6921848, is the sum of its counters,
\* and after any Feed calls on it size is still the sum of the counters
C17_EnglishSizeIsSum ==
    /\ EnglishAnalyzer.size = 6921848
    /\ EnglishAnalyzer.size = SumCounters(EnglishAnalyzer.frequency, 0, NumCounters - 1)
    /\ size = SumCounters(frequency, 0, NumCounters - 1)

\* The preset analyzer was fed as many bytes as the bound allows, each byte
\* value among them
C17_Witness ==
    /\ ret.op = "Feed"
    /\ size = EnglishAnalyzer.size + MaxEnglishFed
    /\ \A i \in EnglishSyms : frequency[i] > EnglishAnalyzer.frequency[i]

(***************************************************************************)
(* The analyzer that keeps maps from characters to counts: the score of    *)
(* the characters that occur.  A map is a function whose domain is the set *)
(* of its keys, and len(m) is the number of its keys.                      *)
(***************************************************************************)
len(m) == Cardinality(DOMAIN m)

\* math.Max
mathMax(a, b) ==
    IF IsNaN(a) \/ IsNaN(b) THEN NaN
    ELSE IF FGt(a, b) THEN a ELSE b

\* setEqual without the loop over the keys
setEqualByLength(a, b) == len(a) = len(b)

setEqual(a, b) ==
    IF len(a) # len(b) THEN FALSE
    ELSE \A k \in DOMAIN a : k \in DOMAIN b

setIntersection(a, b) ==
    [k \in {j \in DOMAIN a : j \in DOMAIN b} |-> b[k]]

setRelativeDifference(a, b) ==
    IF setEqual(a, b) THEN FZero(0)
    ELSE LET ci == FromInt(len(setIntersection(a, b)))
             ca == FromInt(len(a))
             cb == FromInt(len(b))
         IN  IF FEq(ci, FZero(0)) THEN FOne
             ELSE FDiv(mathMax(FSub(ca, ci), FSub(cb, ci)), mathMax(ca, cb))

scoreOccurances(ref, target) ==
    IF len(target.CCount) = 0 THEN FZero(0)
    ELSE FSub(FOne, setRelativeDifference(ref.CCount, target.CCount))

MaxRunes == 3       \* different characters in the two analyzers

Runes == 97..(96 + MaxRunes)

\* The analyzers in which each character of a set was counted once
Counted == {[CCount |-> [k \in chars |-> 1]] : chars \in SUBSET Runes}

InitOccurances ==
    /\ frequency = NewAnalyzer.frequency
    /\ size = NewAnalyzer.size
    /\ files = [p \in Paths |-> NoFile]
    /\ ret = [op |-> "NewAnalyzer", err |-> FALSE]
    /\ hist = NoHistory
    /\ saved = [p \in Paths |-> NotSaved]
    /\ test \in {[phase |-> "call", ref |-> a, target |-> b] : a \in Counted, b \in Counted}
    /\ NoCalls

\* scoreOccurances(ref, target)
OccurancesCall ==
    /\ test.phase = "call"
    /\ ret' = [op |-> "scoreOccurances", err |-> FALSE,
               val |-> scoreOccurances(test.ref, test.target)]
    /\ test' = [test EXCEPT !.phase = "done"]
    /\ UNCHANGED <<frequency, size, files, hist, saved, conc>>

NextOccurances == OccurancesCall

SpecOccurances == InitOccurances /\ [][NextOccurances]_vars

RefChars == DOMAIN test.ref.CCount

TargetChars == DOMAIN test.target.CCount

OccurancesScored == test.phase = "done" /\ ret.op = "scoreOccurances"

====
